---- MODULE Spec2Model ----
(***************************************************************************)
(* Model of the jobs data-access layer of jobly: the Job model class       *)
(* (models/job.js), the partial-update SQL helper it calls                 *)
(* (helpers/sql.js, sqlForPartialUpdate) and the jobs table behind them.   *)
(*                                                                         *)
(* JavaScript values are tagged with their type, so that a strict          *)
(* comparison between a string and a number is decided by the types, as    *)
(* in the language.  JavaScript strings are sequences of one-character     *)
(* strings, so that toLowerCase and includes work on the characters.       *)
(* Property names (the keys of an object) are plain TLA+ strings.          *)
(***************************************************************************)
EXTENDS Integers, Sequences, FiniteSets, TLC

VARIABLES
    jobs,      \* the rows of the jobs table
    call,      \* the call in progress / last made: function name and arguments
    sent,      \* the statements the call passed to db.query, in order
    dbRows,    \* result.rows of the call's query (<<>> when none was sent)
    ret,       \* how the call ended: the value returned or the error thrown
    before,    \* the rows of the jobs table when the call started
    nextId,    \* the next value of the sequence behind jobs.id (SERIAL)
    users      \* the rows of the users table

vars == <<jobs, call, sent, dbRows, ret, before, nextId, users>>

(***************************************************************************)
(* Bounds of the model.                                                    *)
(***************************************************************************)
MaxKeys == 2        \* most keys in an update payload
MaxRows == 3        \* most rows in a table that findAll is run on
MaxTitleArg == 2    \* longest title criterion passed to findAll
MaxCreated == 2     \* most jobs inserted in one run

(***************************************************************************)
(* JavaScript values.                                                      *)
(***************************************************************************)
Undefined == [type |-> "undefined", val |-> 0]
Num(n) == [type |-> "number", val |-> n]
Str(s) == [type |-> "string", val |-> s]
Bool(b) == [type |-> "boolean", val |-> b]

\* ToBoolean: what `if (v)` tests.
Truthy(v) ==
    CASE v.type = "undefined" -> FALSE
      [] v.type = "number" -> v.val # 0
      [] v.type = "string" -> Len(v.val) > 0
      [] v.type = "boolean" -> v.val

\* a !== b
StrictNotEqual(a, b) == a.type # b.type \/ a.val # b.val

(***************************************************************************)
(* Objects used as payloads: the own properties in insertion order, a      *)
(* sequence of [k |-> key, v |-> value] with no key twice.                 *)
(***************************************************************************)
ObjectKeys(data) == [i \in 1..Len(data) |-> data[i].k]
ObjectValues(data) == [i \in 1..Len(data) |-> data[i].v]
HasKey(data, key) == \E i \in 1..Len(data) : data[i].k = key
\* data[key]: undefined when the object has no such property
Prop(data, key) ==
    IF HasKey(data, key)
    THEN (CHOOSE e \in {data[i] : i \in 1..Len(data)} : e.k = key).v
    ELSE Undefined
\* delete data[key]
DeleteKey(data, key) == SelectSeq(data, LAMBDA e : e.k # key)

(***************************************************************************)
(* helpers/sql.js: sqlForPartialUpdate(dataToUpdate, jsToSql).             *)
(* The jsToSql argument is [given |-> whether it was passed, map |-> the   *)
(* object passed, a function from property names to column names].         *)
(***************************************************************************)
EmptyMap == [k \in {} |-> ""]
NoJsToSql == [given |-> FALSE, map |-> EmptyMap]
JsToSql(m) == [given |-> TRUE, map |-> m]

\* ColumnFor with the map read by column name instead of by key.
ColumnForByColumn(key, jsToSql) ==
    IF jsToSql.given /\ \E k \in DOMAIN jsToSql.map : jsToSql.map[k] = key
    THEN CHOOSE k \in DOMAIN jsToSql.map : jsToSql.map[k] = key
    ELSE key

\* The column a key is written to: the map's entry when it has one, else the key.
ColumnFor(key, jsToSql) ==
    IF jsToSql.given /\ key \in DOMAIN jsToSql.map THEN jsToSql.map[key] ELSE key

\* SetCols with the placeholders numbered from 0.
SetColsFromZero(data, jsToSql) ==
    [idx \in 1..Len(data) |-> [col |-> ColumnFor(data[idx].k, jsToSql), ph |-> idx - 1]]

\* The fragments of the SET clause: the idx-th key's column with placeholder $idx.
SetCols(data, jsToSql) ==
    [idx \in 1..Len(data) |-> [col |-> ColumnFor(data[idx].k, jsToSql), ph |-> idx]]

\* One fragment as text: "<column>"=$<n>
FragmentText(f) == "\"" \o f.col \o "\"=$" \o ToString(f.ph)

\* cols.join(', ')
RECURSIVE JoinComma(_)
JoinComma(cols) ==
    IF Len(cols) = 0 THEN ""
    ELSE IF Len(cols) = 1 THEN FragmentText(cols[1])
    ELSE FragmentText(cols[1]) \o ", " \o JoinComma(Tail(cols))

\* The result: an error thrown, or { setCols, values }.  cols is setCols before
\* it is joined into one string, the form in which the database reads it back.
SqlForPartialUpdate(data, jsToSql) ==
    IF Len(ObjectKeys(data)) = 0
    THEN [error |-> "BadRequestError", message |-> "No data",
          cols |-> <<>>, setCols |-> "", values |-> <<>>]
    ELSE [error |-> "none", message |-> "",
          cols |-> SetCols(data, jsToSql),
          setCols |-> JoinComma(SetCols(data, jsToSql)),
          values |-> ObjectValues(data)]

(***************************************************************************)
(* The jobs table and the driver's conversions.  A row is a record over    *)
(* Columns: id and salary are integers, title and company_handle are       *)
(* text, equity is a NUMERIC kept in its decimal text.  The driver hands   *)
(* integers to JavaScript as numbers, text and NUMERIC as strings.         *)
(***************************************************************************)
Columns == {"id", "title", "salary", "equity", "company_handle"}
FromDb(col, x) == IF col \in {"id", "salary"} THEN Num(x) ELSE Str(x)
ToDb(col, v) == v.val

\* A result row with the listed columns, as the JavaScript object the driver builds.
JsRow(row, cols) == [c \in cols |-> FromDb(c, row[c])]

\* Rows matching WHERE id = <param>
WhereId(rows, param) == {j \in rows : FromDb("id", j.id) = param}

\* Whether every placeholder of a statement has a bound parameter.
Bound(phs, params) == \A i \in phs : i \in 1..Len(params)

\* The last fragment that assigns column c (0 when none does).
LastAssign(cols, c) ==
    IF \E i \in 1..Len(cols) : cols[i].col = c
    THEN CHOOSE i \in 1..Len(cols) :
            /\ cols[i].col = c
            /\ \A j \in 1..Len(cols) : cols[j].col = c => j <= i
    ELSE 0

\* SET <cols>: the row with each assigned column replaced by its parameter.
Assign(row, cols, params) ==
    [c \in Columns |->
        IF LastAssign(cols, c) = 0 THEN row[c]
        ELSE ToDb(c, params[cols[LastAssign(cols, c)].ph])]

\* UPDATE jobs SET <cols> WHERE id = $<where> RETURNING id, title, salary, equity,
\* company_handle.  The statement fails as a whole, changing nothing, when a
\* placeholder has no parameter, a fragment names no column of the table, or the
\* new id is the id of another row (the primary key).
DbUpdate(rows, cols, where, params) ==
    LET phs == {cols[i].ph : i \in 1..Len(cols)} \cup {where}
        named == {cols[i].col : i \in 1..Len(cols)}
    IN  IF ~Bound(phs, params) \/ ~(named \subseteq Columns)
        THEN [error |-> "DbError", table |-> rows, rows |-> <<>>]
        ELSE LET target == WhereId(rows, params[where])
                 new == {Assign(j, cols, params) : j \in target}
                 clash == \E n \in new : \E o \in rows \ target : n.id = o.id
             IN  IF clash
                 THEN [error |-> "DbError", table |-> rows, rows |-> <<>>]
                 ELSE [error |-> "none",
                       table |-> (rows \ target) \cup new,
                       rows |-> IF new = {} THEN <<>>
                                ELSE <<JsRow(CHOOSE n \in new : TRUE, Columns)>>]

\* SELECT title, salary, equity, company_handle FROM jobs WHERE id = $1
DbSelectById(rows, params) ==
    LET target == WhereId(rows, params[1])
    IN  IF target = {} THEN <<>>
        ELSE <<JsRow(CHOOSE j \in target : TRUE,
                     {"title", "salary", "equity", "company_handle"})>>

\* DELETE FROM jobs WHERE id = $1 RETURNING id
DbDelete(rows, params) ==
    LET target == WhereId(rows, params[1])
    IN  [table |-> rows \ target,
         rows |-> IF target = {} THEN <<>>
                  ELSE <<JsRow(CHOOSE j \in target : TRUE, {"id"})>>]

(***************************************************************************)
(* models/job.js.  Each method is an operator from the table and the       *)
(* arguments to what the call does: [jobs |-> the table afterwards,        *)
(* sent |-> the statements passed to db.query, dbRows |-> result.rows,     *)
(* ret |-> the outcome and the value returned].                            *)
(***************************************************************************)
Thrown(name, message) == [outcome |-> name, message |-> message, value |-> Undefined]
\* `No job: ${ID}`
NoJob(ID) == "No job: " \o ToString(ID.val)
Returned(v) == [outcome |-> "ok", message |-> "", value |-> v]

\* Job.get(ID)
JobGet(rows, ID) ==
    LET stmt == [verb |-> "SELECT", where |-> 1, params |-> <<ID>>]
        jobRes == DbSelectById(rows, stmt.params)
    IN  [jobs |-> rows, sent |-> <<stmt>>, dbRows |-> jobRes,
         ret |-> IF Len(jobRes) = 0 THEN Thrown("NotFoundError", NoJob(ID))
                 ELSE Returned(jobRes[1])]

\* The data left once update has deleted id and company_handle from it.
StripId(data) ==
    IF Truthy(Prop(data, "id")) THEN DeleteKey(data, "id") ELSE data
StripCompanyHandle(data) ==
    IF Truthy(Prop(data, "company_handle")) THEN DeleteKey(data, "company_handle")
    ELSE data
\* Stripped with salary deleted as well.
StrippedAndSalary(data) == DeleteKey(StripCompanyHandle(StripId(data)), "salary")
Stripped(data) == StripCompanyHandle(StripId(data))

\* JobUpdate with the helper's error dropped and the statement sent regardless.
JobUpdateUnchecked(rows, ID, data) ==
    LET built == SqlForPartialUpdate(Stripped(data), JsToSql(EmptyMap))
        stmt == [verb |-> "UPDATE", setCols |-> built.setCols,
                 cols |-> built.cols, where |-> Len(built.values) + 1,
                 params |-> built.values \o <<ID>>]
        result == DbUpdate(rows, stmt.cols, stmt.where, stmt.params)
    IN  [jobs |-> result.table, sent |-> <<stmt>>, dbRows |-> result.rows,
         ret |-> IF result.error # "none" THEN Thrown(result.error, "")
                 ELSE IF Len(result.rows) = 0 THEN Thrown("NotFoundError", NoJob(ID))
                 ELSE Returned(result.rows[1])]

\* JobUpdate with IDVarIdx one short: the placeholder of the last SET fragment.
JobUpdateIdAtLastValue(rows, ID, data) ==
    LET built == SqlForPartialUpdate(Stripped(data), JsToSql(EmptyMap))
    IN  IF built.error # "none"
        THEN [jobs |-> rows, sent |-> <<>>, dbRows |-> <<>>, ret |-> Thrown(built.error, built.message)]
        ELSE LET IDVarIdx == Len(built.values)
                 stmt == [verb |-> "UPDATE", setCols |-> built.setCols,
                          cols |-> built.cols, where |-> IDVarIdx,
                          params |-> built.values \o <<ID>>]
                 result == DbUpdate(rows, stmt.cols, stmt.where, stmt.params)
             IN  IF result.error # "none"
                 THEN [jobs |-> rows, sent |-> <<stmt>>, dbRows |-> <<>>,
                       ret |-> Thrown(result.error, "")]
                 ELSE [jobs |-> result.table, sent |-> <<stmt>>, dbRows |-> result.rows,
                       ret |-> IF Len(result.rows) = 0 THEN Thrown("NotFoundError", NoJob(ID))
                               ELSE Returned(result.rows[1])]

\* Job.update(ID, data)
JobUpdate(rows, ID, data) ==
    LET built == SqlForPartialUpdate(Stripped(data), JsToSql(EmptyMap))
    IN  IF built.error # "none"
        THEN [jobs |-> rows, sent |-> <<>>, dbRows |-> <<>>, ret |-> Thrown(built.error, built.message)]
        ELSE LET IDVarIdx == Len(built.values) + 1
                 stmt == [verb |-> "UPDATE", setCols |-> built.setCols,
                          cols |-> built.cols, where |-> IDVarIdx,
                          params |-> built.values \o <<ID>>]
                 result == DbUpdate(rows, stmt.cols, stmt.where, stmt.params)
             IN  IF result.error # "none"
                 THEN [jobs |-> rows, sent |-> <<stmt>>, dbRows |-> <<>>,
                       ret |-> Thrown(result.error, "")]
                 ELSE [jobs |-> result.table, sent |-> <<stmt>>, dbRows |-> result.rows,
                       ret |-> IF Len(result.rows) = 0 THEN Thrown("NotFoundError", NoJob(ID))
                               ELSE Returned(result.rows[1])]

\* JobRemove without the check of result.rows[0].
JobRemoveSilent(rows, ID) ==
    LET stmt == [verb |-> "DELETE", where |-> 1, params |-> <<ID>>]
        result == DbDelete(rows, stmt.params)
    IN  [jobs |-> result.table, sent |-> <<stmt>>, dbRows |-> result.rows,
         ret |-> Returned(Undefined)]

\* Job.remove(ID)
JobRemove(rows, ID) ==
    LET stmt == [verb |-> "DELETE", where |-> 1, params |-> <<ID>>]
        result == DbDelete(rows, stmt.params)
    IN  [jobs |-> result.table, sent |-> <<stmt>>, dbRows |-> result.rows,
         ret |-> IF Len(result.rows) = 0 THEN Thrown("NotFoundError", NoJob(ID))
                 ELSE Returned(Undefined)]

\* INSERT INTO jobs (title, salary, equity, company_handle) VALUES ($1, $2, $3, $4)
\* RETURNING title, salary, equity, company_handle.  The id is the next value
\* of the sequence; nothing else of the row is compared with the rows there.
DbInsert(rows, id, params) ==
    LET new == [c \in Columns |->
                  CASE c = "id" -> id
                    [] c = "title" -> ToDb(c, params[1])
                    [] c = "salary" -> ToDb(c, params[2])
                    [] c = "equity" -> ToDb(c, params[3])
                    [] c = "company_handle" -> ToDb(c, params[4])]
    IN  [table |-> rows \cup {new},
         rows |-> <<JsRow(new, {"title", "salary", "equity", "company_handle"})>>]

\* Job.create({ title, salary, equity, company_handle })
JobCreate(rows, id, data) ==
    LET stmt == [verb |-> "INSERT", where |-> 0,
                 params |-> <<Prop(data, "title"), Prop(data, "salary"),
                              Prop(data, "equity"), Prop(data, "company_handle")>>]
        result == DbInsert(rows, id, stmt.params)
    IN  [jobs |-> result.table, sent |-> <<stmt>>, dbRows |-> result.rows,
         ret |-> Returned(result.rows[1])]

(***************************************************************************)
(* Strings: toLowerCase, includes, and the order ORDER BY title sorts in.  *)
(***************************************************************************)
Chars == {"a", "b", "A", "B"}
ToLower == [c \in Chars |-> CASE c = "A" -> "a" [] c = "B" -> "b" [] OTHER -> c]
CharCode == [c \in Chars |-> CASE c = "A" -> 65 [] c = "B" -> 66
                                [] c = "a" -> 97 [] c = "b" -> 98]

\* s.toLowerCase()
ToLowerCase(s) == [i \in 1..Len(s) |-> ToLower[s[i]]]

\* hay.includes(needle): needle occurs in hay at some offset
Includes(hay, needle) ==
    \E off \in 0..Len(hay) :
        /\ off + Len(needle) <= Len(hay)
        /\ \A i \in 1..Len(needle) : hay[off + i] = needle[i]

\* a sorts strictly before b
LexLess(a, b) ==
    \E i \in 1..Len(b) :
        /\ \A j \in 1..(i - 1) : j <= Len(a) /\ a[j] = b[j]
        /\ (i > Len(a) \/ CharCode[a[i]] < CharCode[b[i]])

\* SELECT id, title, salary, equity, company_handle FROM jobs ORDER BY title:
\* every order of the rows that is sorted by title is a possible result, rows
\* with equal titles coming in either order.
DbSelectAll(rows) ==
    LET n == Cardinality(rows)
        js == {JsRow(j, Columns) : j \in rows}
    IN  {s \in [1..n -> js] :
            /\ \A i, j \in 1..n : i # j => s[i] # s[j]
            /\ \A i, j \in 1..n : i < j => ~LexLess(s[j].title.val, s[i].title.val)}

\* FilterTitle comparing the title as stored, without toLowerCase on it.
FilterTitleCaseSensitive(list, title) ==
    IF Truthy(title)
    THEN SelectSeq(list, LAMBDA job : Includes(job.title.val, ToLowerCase(title.val)))
    ELSE list

\* FilterMinSalary with > in place of >=.
FilterMinSalaryStrict(list, minSalary) ==
    IF Truthy(minSalary)
    THEN SelectSeq(list, LAMBDA job : job.salary.val > minSalary.val)
    ELSE list

\* The three filters of Job.findAll, each applied when its argument is truthy.
FilterTitle(list, title) ==
    IF Truthy(title)
    THEN SelectSeq(list, LAMBDA job :
            Includes(ToLowerCase(job.title.val), ToLowerCase(title.val)))
    ELSE list
FilterMinSalary(list, minSalary) ==
    IF Truthy(minSalary)
    THEN SelectSeq(list, LAMBDA job : job.salary.val >= minSalary.val)
    ELSE list
FilterHasEquity(list, hasEquity) ==
    IF Truthy(hasEquity)
    THEN SelectSeq(list, LAMBDA job : StrictNotEqual(job.equity, Num(0)))
    ELSE list

\* JobFindAll with the minSalary filter run on jobsRes.rows instead of on jobs.
JobFindAllRestart(jobsRes, title, minSalary, hasEquity) ==
    IF Truthy(minSalary)
    THEN FilterHasEquity(FilterMinSalary(jobsRes, minSalary), hasEquity)
    ELSE FilterHasEquity(FilterTitle(jobsRes, title), hasEquity)

\* Job.findAll(title, minSalary, hasEquity), given jobsRes.rows
JobFindAll(jobsRes, title, minSalary, hasEquity) ==
    FilterHasEquity(FilterMinSalary(FilterTitle(jobsRes, title), minSalary), hasEquity)

(***************************************************************************)
(* The arguments the calls are made with.                                  *)
(***************************************************************************)
PayloadKeys == {"id", "title", "salary", "equity", "company_handle"}
PayloadVals(key) ==
    CASE key = "id" -> {Num(0), Num(9)}
      [] key = "title" -> {Str(<<"b", "a">>)}
      [] key = "salary" -> {Num(500)}
      [] key = "equity" -> {Str(<<"0", ".", "5">>)}
      [] key = "company_handle" -> {Str(<<"c", "3">>)}
Entries == UNION {{[k |-> key, v |-> val] : val \in PayloadVals(key)} : key \in PayloadKeys}
\* Objects of at most MaxKeys properties, in every insertion order.
Payloads ==
    UNION {{p \in [1..n -> Entries] : \A i, j \in 1..n : i # j => p[i].k # p[j].k}
           : n \in 0..MaxKeys}

FullMap == [k \in {"title", "numEmployees"} |->
              IF k = "title" THEN "job_title" ELSE "num_employees"]
ColumnMaps == {[k \in D |-> FullMap[k]] : D \in SUBSET DOMAIN FullMap}
JsToSqlArgs == {NoJsToSql} \cup {JsToSql(m) : m \in ColumnMaps}

IdArgs == {Num(-1), Num(0), Num(1), Num(2)}

\* The jobs table as seeded.
SeedJobs ==
    {[id |-> 1, title |-> <<"a", "b">>, salary |-> 100,
      equity |-> <<"0", ".", "1">>, company_handle |-> <<"c", "1">>],
     [id |-> 2, title |-> <<"B">>, salary |-> 200,
      equity |-> <<"0">>, company_handle |-> <<"c", "2">>]}

NoCall == [fn |-> "none"]
NoReturn == [outcome |-> "none", message |-> "", value |-> Undefined]

(***************************************************************************)
(* The state machine: one action per call, the whole call in one step.     *)
(* Calls are made one at a time: a call starts when the caller has taken   *)
(* the previous call's result (NextRequest), and records what it did.      *)
(***************************************************************************)
\* The first id the sequence hands out after the seeding.
FirstFreeId == Cardinality(SeedJobs) + 1

\* The users table as seeded: u1 is not an admin, as its token in the route tests.
SeedUsers ==
    {[username |-> <<"u", "1">>, isAdmin |-> FALSE],
     [username |-> <<"a", "d">>, isAdmin |-> TRUE]}

Init ==
    /\ jobs = SeedJobs
    /\ call = NoCall
    /\ sent = <<>>
    /\ dbRows = <<>>
    /\ ret = NoReturn
    /\ before = SeedJobs
    /\ nextId = FirstFreeId
    /\ users = SeedUsers

\* No call's result is waiting to be taken.
Ready == call.fn = "none"

\* What a call leaves behind.
Done(c, r) ==
    /\ call' = c
    /\ jobs' = r.jobs
    /\ sent' = r.sent
    /\ dbRows' = r.dbRows
    /\ ret' = r.ret
    /\ before' = jobs
    /\ UNCHANGED <<nextId, users>>

\* sqlForPartialUpdate(data, jsToSql) called on its own, as its tests do.
HelperCall ==
    /\ Ready
    /\ \E data \in Payloads, jsToSql \in JsToSqlArgs :
        LET built == SqlForPartialUpdate(data, jsToSql)
        IN  Done([fn |-> "sqlForPartialUpdate", data |-> data, jsToSql |-> jsToSql],
                 [jobs |-> jobs, sent |-> <<>>, dbRows |-> <<>>,
                  ret |-> IF built.error # "none" THEN Thrown(built.error, built.message)
                          ELSE Returned([setCols |-> built.setCols,
                                         cols |-> built.cols,
                                         values |-> built.values])])

Get ==
    /\ Ready
    /\ \E ID \in IdArgs :
        Done([fn |-> "get", ID |-> ID], JobGet(jobs, ID))

Update ==
    /\ Ready
    /\ \E ID \in IdArgs, data \in Payloads :
        Done([fn |-> "update", ID |-> ID, data |-> data], JobUpdate(jobs, ID, data))

Remove ==
    /\ Ready
    /\ \E ID \in IdArgs :
        Done([fn |-> "remove", ID |-> ID], JobRemove(jobs, ID))

\* The caller takes the result of the call; the table stays as the call left it.
NextRequest ==
    /\ ~Ready
    /\ call' = NoCall
    /\ sent' = <<>>
    /\ dbRows' = <<>>
    /\ ret' = NoReturn
    /\ before' = jobs
    /\ UNCHANGED <<jobs, nextId, users>>

Next == HelperCall \/ Get \/ Update \/ Remove \/ NextRequest

Spec == Init /\ [][Next]_vars

(***************************************************************************)
(* Job.findAll, run on tables of up to MaxRows rows.                       *)
(***************************************************************************)
SampleRows ==
    {[id |-> 1, title |-> <<"a", "b">>, salary |-> 100,
      equity |-> <<"0", ".", "1">>, company_handle |-> <<"c", "1">>],
     [id |-> 2, title |-> <<"A", "b">>, salary |-> 200,
      equity |-> <<"0">>, company_handle |-> <<"c", "1">>],
     [id |-> 3, title |-> <<"a", "b">>, salary |-> 0,
      equity |-> <<"0", ".", "5">>, company_handle |-> <<"c", "2">>],
     [id |-> 4, title |-> <<"b", "a">>, salary |-> 200,
      equity |-> <<"0", ".", "0">>, company_handle |-> <<"c", "2">>],
     [id |-> 5, title |-> <<"B">>, salary |-> 300,
      equity |-> <<"0", ".", "2">>, company_handle |-> <<"c", "3">>]}
SampleTables == {t \in SUBSET SampleRows : Cardinality(t) <= MaxRows}

TitleArgs ==
    {Undefined} \cup UNION {{Str(s) : s \in [1..n -> Chars]} : n \in 0..MaxTitleArg}
MinSalaryArgs == {Undefined, Num(0), Num(100), Num(200), Num(250)}
HasEquityArgs == {Undefined, Bool(TRUE), Bool(FALSE)}

InitFind ==
    /\ jobs \in SampleTables
    /\ call = NoCall
    /\ sent = <<>>
    /\ dbRows = <<>>
    /\ ret = NoReturn
    /\ before = jobs
    /\ nextId = Cardinality(SampleRows) + 1
    /\ users = SeedUsers

FindAll ==
    /\ Ready
    /\ \E jobsRes \in DbSelectAll(jobs) :
        \E title \in TitleArgs, minSalary \in MinSalaryArgs, hasEquity \in HasEquityArgs :
            Done([fn |-> "findAll", title |-> title, minSalary |-> minSalary,
                  hasEquity |-> hasEquity],
                 [jobs |-> jobs, sent |-> <<[verb |-> "SELECT", where |-> 0, params |-> <<>>]>>,
                  dbRows |-> jobsRes,
                  ret |-> Returned(JobFindAll(jobsRes, title, minSalary, hasEquity))])

NextFind == FindAll \/ NextRequest

SpecFind == InitFind /\ [][NextFind]_vars

(***************************************************************************)
(* Job.create, run from the seeded table.                                  *)
(***************************************************************************)
\* The data create is called with: every field given, some equal to a seeded job.
NewJobs ==
    {<<[k |-> "title", v |-> Str(t)], [k |-> "salary", v |-> Num(n)],
       [k |-> "equity", v |-> Str(e)], [k |-> "company_handle", v |-> Str(h)]>> :
        t \in {<<"a", "b">>, <<"B">>}, n \in {100, 200},
        e \in {<<"0", ".", "1">>, <<"0">>}, h \in {<<"c", "1">>, <<"c", "2">>}}

Create ==
    /\ Ready
    /\ nextId < FirstFreeId + MaxCreated
    /\ \E data \in NewJobs :
        LET r == JobCreate(jobs, nextId, data)
        IN  /\ call' = [fn |-> "create", data |-> data]
            /\ jobs' = r.jobs
            /\ sent' = r.sent
            /\ dbRows' = r.dbRows
            /\ ret' = r.ret
            /\ before' = jobs
            /\ nextId' = nextId + 1
            /\ UNCHANGED users

NextCreate == Create \/ NextRequest

SpecCreate == Init /\ [][NextCreate]_vars

(***************************************************************************)
(* routes/jobs.js and routes/users.js.  A request carries the user the     *)
(* token was issued to (res.locals.user), or none.  A route is a chain of  *)
(* middleware followed by its handler; a middleware that throws ends the   *)
(* request with its error and the handler is not run.                      *)
(***************************************************************************)
Anon == [loggedIn |-> FALSE, username |-> <<>>, isAdmin |-> FALSE]
LoggedIn(u) == [loggedIn |-> TRUE, username |-> u.username, isAdmin |-> u.isAdmin]
Requesters == {Anon} \cup {LoggedIn(u) : u \in SeedUsers}

\* middleware/auth.js: whether the middleware lets the request through.
Passes(middleware, requester) ==
    CASE middleware = "ensureLoggedIn" -> requester.loggedIn
      [] middleware = "ensureAdmin" -> requester.loggedIn /\ requester.isAdmin

\* The request goes on to the handler when every middleware of the chain passes.
Authorized(chain, requester) ==
    \A i \in 1..Len(chain) : Passes(chain[i], requester)

\* The status the error handler answers with.
StatusOf(outcome) ==
    CASE outcome = "BadRequestError" -> 400
      [] outcome = "UnauthorizedError" -> 401
      [] outcome = "NotFoundError" -> 404
      [] OTHER -> 500

\* The response to a request: the handler's result r with its status, and the
\* model method the handler reached ("none" when it was not run).
Response(r, okStatus, reached) ==
    [outcome |-> r.outcome, message |-> r.message, value |-> r.value,
     status |-> IF r.outcome = "ok" THEN okStatus ELSE StatusOf(r.outcome),
     reached |-> reached]

\* What a request turned away by the middleware leaves behind.
Rejected(rows) ==
    [jobs |-> rows, sent |-> <<>>, dbRows |-> <<>>,
     ret |-> Response(Thrown("UnauthorizedError", "Unauthorized"), 0, "none")]

\* The same with the response computed from the model method's result.
Handled(r, okStatus, reached) ==
    [jobs |-> r.jobs, sent |-> r.sent, dbRows |-> r.dbRows,
     ret |-> Response(r.ret, okStatus, reached)]

\* The middleware of the routes.
PostJobsChain == <<"ensureLoggedIn", "ensureAdmin">>
\* PATCH /jobs/:ID guarded by ensureLoggedIn alone.
PatchJobChainLoginOnly == <<"ensureLoggedIn">>
PatchJobChain == <<"ensureLoggedIn", "ensureAdmin">>
DeleteJobChain == <<"ensureLoggedIn", "ensureAdmin">>
PostUsersChain == <<"ensureLoggedIn">>

\* The arguments of the requests.  The id of the path is the integer the
\* database reads it as.
RouteIds == {Num(-1), Num(1)}
RouteJobs ==
    {d \in NewJobs : /\ Prop(d, "salary") = Num(200)
                     /\ Prop(d, "equity") = Str(<<"0">>)
                     /\ Prop(d, "company_handle") = Str(<<"c", "2">>)}

\* POST /jobs
PostJobs ==
    /\ Ready
    /\ \E requester \in Requesters, body \in RouteJobs :
        /\ call' = [fn |-> "POST /jobs", requester |-> requester, body |-> body]
        /\ before' = jobs
        /\ UNCHANGED users
        /\ IF Authorized(PostJobsChain, requester)
           THEN /\ nextId < FirstFreeId + MaxCreated
                /\ LET r == Handled(JobCreate(jobs, nextId, body), 201, "Job.create")
                   IN  /\ jobs' = r.jobs
                       /\ sent' = r.sent
                       /\ dbRows' = r.dbRows
                       /\ ret' = r.ret
                /\ nextId' = nextId + 1
           ELSE /\ jobs' = jobs
                /\ sent' = <<>>
                /\ dbRows' = <<>>
                /\ ret' = Rejected(jobs).ret
                /\ UNCHANGED nextId

\* PATCH /jobs/:ID
PatchJob ==
    /\ Ready
    /\ \E requester \in Requesters, ID \in RouteIds, body \in Payloads :
        Done([fn |-> "PATCH /jobs/:ID", requester |-> requester, ID |-> ID, body |-> body],
             IF Authorized(PatchJobChain, requester)
             THEN Handled(JobUpdate(jobs, ID, body), 200, "Job.update")
             ELSE Rejected(jobs))

\* DELETE /jobs/:ID
DeleteJob ==
    /\ Ready
    /\ \E requester \in Requesters, ID \in RouteIds :
        Done([fn |-> "DELETE /jobs/:ID", requester |-> requester, ID |-> ID],
             IF Authorized(DeleteJobChain, requester)
             THEN Handled(JobRemove(jobs, ID), 200, "Job.remove")
             ELSE Rejected(jobs))

\* The bodies of POST /users: a user to add, or a body without a username.
UserBodies ==
    {<<[k |-> "username", v |-> Str(n)], [k |-> "isAdmin", v |-> Bool(b)]>> :
        n \in {<<"u", "1">>, <<"n", "1">>}, b \in BOOLEAN}
    \cup {<<[k |-> "isAdmin", v |-> Bool(TRUE)]>>}

\* jsonschema.validate(req.body, userNewSchema).valid
ValidUserNew(body) == HasKey(body, "username") /\ HasKey(body, "isAdmin")

\* User.register(req.body): adds the user, unless the username is taken.
UserRegister(rows, body) ==
    LET username == Prop(body, "username").val
        user == [username |-> username, isAdmin |-> Prop(body, "isAdmin").val]
    IN  IF \E u \in rows : u.username = username
        THEN [users |-> rows,
              ret |-> Thrown("BadRequestError", "Duplicate username")]
        ELSE [users |-> rows \cup {user},
              ret |-> Returned(Bool(user.isAdmin))]

\* POST /users
PostUsers ==
    /\ Ready
    /\ \E requester \in Requesters, body \in UserBodies :
        LET r == IF ~Authorized(PostUsersChain, requester)
                 THEN [users |-> users, ret |-> Rejected(jobs).ret]
                 ELSE IF ~ValidUserNew(body)
                 THEN [users |-> users,
                       ret |-> Response(Thrown("BadRequestError", "errs"), 0, "none")]
                 ELSE LET reg == UserRegister(users, body)
                      IN  [users |-> reg.users,
                           ret |-> Response(reg.ret, 201, "User.register")]
        IN  /\ call' = [fn |-> "POST /users", requester |-> requester, body |-> body]
            /\ users' = r.users
            /\ ret' = r.ret
            /\ sent' = <<>>
            /\ dbRows' = <<>>
            /\ before' = jobs
            /\ UNCHANGED <<jobs, nextId>>

NextRoutes ==
    \/ PostJobs
    \/ PatchJob
    \/ DeleteJob
    \/ PostUsers
    \/ NextRequest

SpecRoutes == Init /\ [][NextRoutes]_vars

\* The primary key: no two rows of the table share an id.
TypeOK ==
    /\ \A a, b \in jobs : a.id = b.id => a = b
    /\ call.fn \in {"none", "sqlForPartialUpdate", "get", "update", "remove", "findAll",
                  "create", "POST /jobs", "PATCH /jobs/:ID", "DELETE /jobs/:ID",
                  "POST /users"}

(***************************************************************************)
(* The properties checked of the model.                                    *)
(***************************************************************************)
\* Whether the call's ID is the id of a row the table held when the call started.
IdExisted == \E j \in before : FromDb("id", j.id) = call.ID

\* C1: an update whose payload has no keys throws BadRequestError "No data",
\* whatever jsToSql is and also when it is not passed, and before anything is
\* sent to the database: Job.update(id, {}) throws it and leaves the table as
\* it was.
C1_NoData ==
    /\ (call.fn = "sqlForPartialUpdate" /\ Len(call.data) = 0) =>
          /\ ret.outcome = "BadRequestError"
          /\ ret.message = "No data"
          /\ sent = <<>>
    /\ (call.fn = "update" /\ Len(call.data) = 0) =>
          /\ ret.outcome = "BadRequestError"
          /\ ret.message = "No data"
          /\ sent = <<>>
          /\ jobs = before

\* Job.update(id, {}) on an existing id has thrown BadRequestError.
C1_Witness ==
    /\ call.fn = "update"
    /\ Len(call.data) = 0
    /\ IdExisted
    /\ ret.outcome = "BadRequestError"

\* The text of the first n fragments of a SET clause over the given columns.
RECURSIVE SetClauseText(_, _)
SetClauseText(columns, n) ==
    IF n = 0 THEN ""
    ELSE SetClauseText(columns, n - 1) \o (IF n > 1 THEN ", " ELSE "")
            \o "\"" \o columns[n] \o "\"=$" \o ToString(n)

\* C2: for a payload of n > 0 keys sqlForPartialUpdate returns n values in the
\* payload's key order and a setCols of n fragments joined by ", ", the i-th
\* fragment carrying placeholder $i, so that the placeholders are exactly
\* $1..$n, each once, and the i-th value is the value of the i-th key.
C2_SetClauseShape ==
    (call.fn = "sqlForPartialUpdate" /\ Len(call.data) > 0) =>
        LET n == Len(call.data)
            out == ret.value
        IN  /\ ret.outcome = "ok"
            /\ Len(out.values) = n
            /\ \A i \in 1..n : out.values[i] = call.data[i].v
            /\ Len(out.cols) = n
            /\ \A i \in 1..n : out.cols[i].ph = i
            /\ \A p \in 1..n : Cardinality({i \in 1..n : out.cols[i].ph = p}) = 1
            /\ out.setCols = SetClauseText([i \in 1..n |-> out.cols[i].col], n)

\* sqlForPartialUpdate has returned for a payload of two keys.
C2_Witness ==
    /\ call.fn = "sqlForPartialUpdate"
    /\ Len(call.data) = 2
    /\ ret.outcome = "ok"
    /\ ret.value.setCols = "\"title\"=$1, \"salary\"=$2"

\* C3: a jsToSql entry for a payload key changes only the column emitted for
\* that key: placeholders and values are those of the call with an empty map,
\* keys without an entry are emitted as they are, and entries for keys that are
\* not in the payload change nothing.
C3_ColumnMapOnlyRenames ==
    (call.fn = "sqlForPartialUpdate" /\ Len(call.data) > 0 /\ call.jsToSql.given) =>
        LET n == Len(call.data)
            map == call.jsToSql.map
            out == ret.value
            plain == SqlForPartialUpdate(call.data, JsToSql(EmptyMap))
            keys == {call.data[i].k : i \in 1..n}
            used == [k \in DOMAIN map \cap keys |-> map[k]]
            same == SqlForPartialUpdate(call.data, JsToSql(used))
        IN  /\ ret.outcome = "ok"
            /\ out.values = plain.values
            /\ \A i \in 1..n :
                  /\ out.cols[i].ph = plain.cols[i].ph
                  /\ out.cols[i].col = IF call.data[i].k \in DOMAIN map
                                       THEN map[call.data[i].k]
                                       ELSE call.data[i].k
            /\ out.setCols = same.setCols
            /\ out.cols = same.cols

\* sqlForPartialUpdate has returned for a payload with a mapped key and an
\* unmapped key, under a map that also has an entry for a key not in the payload.
C3_Witness ==
    /\ call.fn = "sqlForPartialUpdate"
    /\ call.jsToSql.given
    /\ DOMAIN call.jsToSql.map = {"title", "numEmployees"}
    /\ Len(call.data) = 2
    /\ call.data[1].k = "salary"
    /\ call.data[2].k = "title"
    /\ ret.outcome = "ok"
    /\ ret.value.setCols = "\"salary\"=$1, \"job_title\"=$2"

\* C4 as first stated: Job.get, Job.remove and Job.update with a payload of at least
\* one key, called with an id that matches no job, throw NotFoundError and leave
\* the table as it was.
C4_AnyNonEmptyPayload ==
    (/\ call.fn \in {"get", "update", "remove"}
     /\ ~IdExisted
     /\ call.fn = "update" => Len(call.data) > 0) =>
        /\ ret.outcome = "NotFoundError"
        /\ jobs = before

\* A payload entry that update does not delete: any key but id and
\* company_handle, and those two when their value is falsy.
Kept(e) == e.k \notin {"id", "company_handle"} \/ ~Truthy(e.v)

\* C4, amended: Job.get, Job.remove, and Job.update with a payload that keeps at
\* least one key once update has deleted id and company_handle from it, called
\* with an id that matches no job, throw NotFoundError and leave the table as it
\* was.  (A payload made only of id and company_handle is empty after the
\* deletes and ends in BadRequestError.)
C4_NotFound ==
    (/\ call.fn \in {"get", "update", "remove"}
     /\ ~IdExisted
     /\ call.fn = "update" => \E i \in 1..Len(call.data) : Kept(call.data[i])) =>
        /\ ret.outcome = "NotFoundError"
        /\ Len(sent) = 1
        /\ jobs = before

\* Job.update with a title has been called with an id that matches no job,
\* while the table holds jobs.
C4_Witness ==
    /\ call.fn = "update"
    /\ ~IdExisted
    /\ before # {}
    /\ HasKey(call.data, "title")
    /\ HasKey(call.data, "id")
    /\ ret.outcome = "NotFoundError"

\* C5: after Job.update(id, payload) has succeeded for an existing id and a
\* non-empty payload over title, salary and equity, Job.get(id) returns the
\* payload's value for every field supplied and the value the job had for every
\* other field, and every other job of the table is as it was.
C5_RoundTrip ==
    (/\ call.fn = "update"
     /\ IdExisted
     /\ Len(call.data) > 0
     /\ \A i \in 1..Len(call.data) : call.data[i].k \in {"title", "salary", "equity"}
     /\ ret.outcome = "ok") =>
        LET old == CHOOSE j \in before : FromDb("id", j.id) = call.ID
            got == JobGet(jobs, call.ID).ret
        IN  /\ got.outcome = "ok"
            /\ \A c \in {"title", "salary", "equity", "company_handle"} :
                  got.value[c] = IF HasKey(call.data, c) THEN Prop(call.data, c)
                                 ELSE FromDb(c, old[c])
            /\ before \ {old} \subseteq jobs
            /\ Cardinality(jobs) = Cardinality(before)

\* Job.update has changed the title and salary of one of two jobs.
C5_Witness ==
    /\ call.fn = "update"
    /\ IdExisted
    /\ Cardinality(before) = 2
    /\ Len(call.data) = 2
    /\ call.data[1].k = "salary"
    /\ call.data[2].k = "title"
    /\ ret.outcome = "ok"
    /\ jobs # before

\* The (id, company_handle) pairs of a table.
Identities(rows) == {<<j.id, j.company_handle>> : j \in rows}

\* C6: Job.update changes no job's id or company_handle, whatever the payload
\* carries under id and company_handle, and neither key appears in the SET
\* clause it sends.
C6_IdAndHandleKept ==
    call.fn = "update" =>
        /\ Identities(jobs) = Identities(before)
        /\ \A s \in 1..Len(sent) : \A i \in 1..Len(sent[s].cols) :
              sent[s].cols[i].col \notin {"id", "company_handle"}

\* needle occurs in hay when the case of the letters is ignored.
ContainsIgnoringCase(hay, needle) ==
    \E off \in 0..Len(hay) :
        /\ off + Len(needle) <= Len(hay)
        /\ \A i \in 1..Len(needle) : ToLower[hay[off + i]] = ToLower[needle[i]]

\* C7: Job.findAll(title) with no other filter returns exactly the jobs whose
\* title contains the criterion as a case-insensitive substring, in the order
\* of the unfiltered list sorted by title.
C7_TitleFilter ==
    (/\ call.fn = "findAll"
     /\ call.title.type = "string"
     /\ call.minSalary = Undefined
     /\ call.hasEquity = Undefined) =>
        /\ dbRows \in DbSelectAll(jobs)
        /\ ret.outcome = "ok"
        /\ ret.value = SelectSeq(dbRows, LAMBDA job :
                          ContainsIgnoringCase(job.title.val, call.title.val))

\* Job.findAll("Ba") on three jobs has returned the one job titled "ba".
C7_Witness ==
    /\ call.fn = "findAll"
    /\ call.title = Str(<<"B", "a">>)
    /\ call.minSalary = Undefined
    /\ call.hasEquity = Undefined
    /\ Len(dbRows) = 3
    /\ Len(ret.value) = 1
    /\ ret.value[1].title = Str(<<"b", "a">>)

ZeroEquity(e) == \A i \in 1..Len(e) : e[i] \in {"0", "."}

\* C9: with hasEquity true, Job.findAll returns only jobs that offer equity:
\* every job whose stored equity is zero is dropped and every job with a
\* non-zero equity that passes the other filters is kept.
C9_HasEquityFilter ==
    (call.fn = "findAll" /\ call.hasEquity = Bool(TRUE)) =>
        ret.value = SelectSeq(JobFindAll(dbRows, call.title, call.minSalary, Undefined),
                              LAMBDA job : ~ZeroEquity(job.equity.val))

\* a is b with some elements left out, the others in b's order.
IsSubsequence(a, b) ==
    \E f \in [1..Len(a) -> 1..Len(b)] :
        /\ \A i, j \in 1..Len(a) : i < j => f[i] < f[j]
        /\ \A i \in 1..Len(a) : a[i] = b[f[i]]

\* C10: Job.findAll(title, minSalary, hasEquity) returns what the three filters
\* give when each is applied on its own, one after another, in any of the six
\* orders; a filter that is not supplied removes no job; and the result is a
\* subsequence of the unfiltered list.
C10_FiltersCompose ==
    call.fn = "findAll" =>
        LET T(l) == JobFindAll(l, call.title, Undefined, Undefined)
            S(l) == JobFindAll(l, Undefined, call.minSalary, Undefined)
            E(l) == JobFindAll(l, Undefined, Undefined, call.hasEquity)
        IN  /\ ret.value = E(S(T(dbRows)))
            /\ ret.value = S(E(T(dbRows)))
            /\ ret.value = E(T(S(dbRows)))
            /\ ret.value = T(E(S(dbRows)))
            /\ ret.value = S(T(E(dbRows)))
            /\ ret.value = T(S(E(dbRows)))
            /\ call.title = Undefined => T(dbRows) = dbRows
            /\ call.minSalary = Undefined => S(dbRows) = dbRows
            /\ call.hasEquity = Undefined => E(dbRows) = dbRows
            /\ IsSubsequence(ret.value, dbRows)

\* Job.findAll("b", 200, true) has run on three jobs; the title filter and the
\* salary filter each dropped a different job.
C10_Witness ==
    /\ call.fn = "findAll"
    /\ call.title = Str(<<"b">>)
    /\ call.minSalary = Num(200)
    /\ call.hasEquity = Bool(TRUE)
    /\ Len(dbRows) = 3
    /\ Len(JobFindAll(dbRows, call.title, Undefined, Undefined)) = 3
    /\ Len(JobFindAll(dbRows, Undefined, call.minSalary, Undefined)) = 2
    /\ Len(ret.value) = 2

\* The job with the title, salary, equity and company_handle of the data was in
\* the table when the call started.
AlreadyThere ==
    \E j \in before : \A c \in {"title", "salary", "equity", "company_handle"} :
        FromDb(c, j[c]) = Prop(call.data, c)

\* C11: Job.create throws BadRequestError when the job is already in the
\* database (same title, salary, equity and company_handle as an existing job)
\* and then adds no row.
C11_DuplicateRejected ==
    (call.fn = "create" /\ AlreadyThere) =>
        /\ ret.outcome = "BadRequestError"
        /\ jobs = before


\* Whether the request came without a token, or with the token of a user who
\* is not an admin.
NotAdmin == ~call.requester.loggedIn \/ ~call.requester.isAdmin
JobsWrite == call.fn \in {"POST /jobs", "PATCH /jobs/:ID", "DELETE /jobs/:ID"}

\* C12: POST /jobs, PATCH /jobs/:ID and DELETE /jobs/:ID called by a requester
\* who is anonymous or logged in without admin rights answer 401 Unauthorized
\* without reaching Job.create, Job.update or Job.remove: nothing is sent to
\* the database and the jobs table is as it was, whatever the body and
\* whether or not the id exists.
C12_JobsWritesAdminOnly ==
    (JobsWrite /\ NotAdmin) =>
        /\ ret.status = 401
        /\ ret.outcome = "UnauthorizedError"
        /\ ret.reached = "none"
        /\ sent = <<>>
        /\ jobs = before

\* C12: a logged-in user who is not an admin has patched an existing job with
\* a body that an admin's request would have applied, and was answered 401.
C12_Witness ==
    /\ call.fn = "PATCH /jobs/:ID"
    /\ call.requester.loggedIn
    /\ ~call.requester.isAdmin
    /\ IdExisted
    /\ Len(Stripped(call.body)) > 0
    /\ ret.status = 401
    /\ jobs = before

\* C13: POST /users called by a logged-in requester who is not an admin never
\* reaches User.register, and so adds no user.
C13_UsersPostAdminOnly ==
    (call.fn = "POST /users" /\ call.requester.loggedIn /\ ~call.requester.isAdmin) =>
        /\ ret.reached = "none"
        /\ ret.status # 201
        /\ \A u \in users : u \in SeedUsers

\* C14: for every payload that leaves n >= 1 SET columns, Job.update sends one
\* statement with n + 1 parameters: WHERE id = $(n+1), a placeholder no SET
\* fragment uses, and the parameters are the n payload values in payload order
\* followed by the job id.
C14_IdIsLastParameter ==
    (call.fn = "update" /\ Len(Stripped(call.data)) > 0) =>
        /\ Len(sent) = 1
        /\ LET stmt == sent[1]
               kept == Stripped(call.data)
               n == Len(stmt.cols)
           IN  /\ n = Len(kept)
               /\ Len(stmt.params) = n + 1
               /\ stmt.where = n + 1
               /\ \A i \in 1..n : stmt.cols[i].ph # stmt.where
               /\ \A i \in 1..n : stmt.params[i] = kept[i].v
               /\ stmt.params[n + 1] = call.ID

\* C14: an update of an existing job that set MaxKeys columns has returned its row.
C14_Witness ==
    /\ call.fn = "update"
    /\ Len(sent) = 1
    /\ Len(sent[1].cols) = MaxKeys
    /\ Len(sent[1].params) = MaxKeys + 1
    /\ IdExisted
    /\ ret.outcome = "ok"
====
